---------------------------- MODULE Spec2Model ----------------------------
(***************************************************************************)
(* pycoschooldata: the rpy2 facade over the coschooldata R package.        *)
(*                                                                         *)
(* The module-level state of core.py is the single global _pkg.  Each of   *)
(* the seven public operations is an operator from (handle, environment    *)
(* answers, arguments) to (new handle, outcome of the call); the           *)
(* environment answers are what importr and the R function give back.      *)
(*                                                                         *)
(* Python values are abstracted to their kind:                             *)
(*   "int"    a Python int                "float"  a Python float          *)
(*   "numstr" a str that int() parses     "word"   a str int() rejects     *)
(*   "arr"    a one-element numpy array   "vec"    a one-element R vector  *)
(*   "empty"  a zero-length vector / NULL "list"   the result of list(...) *)
(***************************************************************************)
EXTENDS Integers, Sequences, FiniteSets

VARIABLES _pkg, loads, last, prevLoadFailed,
          pkgB, lastB, phase, prior,
          pc, held, tcalls

vars == <<_pkg, loads, last, prevLoadFailed, pkgB, lastB, phase, prior,
          pc, held, tcalls>>

\* ------------------------------------------------------------------ bounds
MaxYears == 2
MaxThreadCalls == 2
MaxPrior == 2

\* ------------------------------------------------------- Python value kinds
Kinds == {"int", "float", "numstr", "word", "arr", "vec", "empty"}

Ok(k) == [ok |-> TRUE, err |-> "", k |-> k]
Err(e) == [ok |-> FALSE, err |-> e, k |-> "none"]

\* int(x)
PyInt(x) ==
  IF ~x.ok THEN x
  ELSE IF x.k \in {"int", "float", "numstr", "arr"} THEN Ok("int")
  ELSE IF x.k = "word" THEN Err("ValueError")
  ELSE Err("TypeError")

\* x[0]
Index0(x) ==
  IF ~x.ok THEN x
  ELSE IF x.k \in {"arr", "vec"} THEN Ok("int")
  ELSE IF x.k = "empty" THEN Err("IndexError")
  ELSE IF x.k \in {"numstr", "word"} THEN Ok(x.k)
  ELSE Err("TypeError")

\* str(x)
PyStr(x) ==
  IF ~x.ok THEN x
  ELSE IF x.k \in {"int", "numstr"} THEN Ok("numstr")
  ELSE Ok("word")

\* list(x)
PyList(x) ==
  IF ~x.ok THEN x
  ELSE IF x.k \in {"arr", "vec", "empty", "numstr", "word", "list"} THEN Ok("list")
  ELSE Err("TypeError")

\* hasattr(v, "__getitem__") and not isinstance(v, (int, float, str))
Subscriptable(x) == x.ok /\ x.k \in {"arr", "vec", "empty", "list"}

\* ------------------------------------------------ foreign structured records
\* A record the R function hands back, as rpy2 presents it:
\*   isdict  isinstance(r, dict)           rx2    hasattr(r, "rx2")
\*   names   "absent" | "attr" | "method" | "none" (attribute present, None)
\*   pairs   dict(r) succeeds              keys   the field names it holds
\*   vk      the kind of every field value
YearsFieldSets ==
  { {"min_year", "max_year"}, {"min_year"}, {"min_year", "max_year", "extra"} }

AssessFieldSets ==
  { {"years", "note", "assessment_system"}, {"years", "note"},
    {"years", "note", "assessment_system", "extra"} }

NamesForms == {"absent", "attr", "method", "none"}

ForeignRecords(fieldSets) ==
  { r \in [isdict : BOOLEAN, rx2 : BOOLEAN, names : NamesForms, pairs : BOOLEAN,
           keys : fieldSets, vk : Kinds] : r.isdict => r.pairs }

\* r[key] on a mapping
Item(r, key) == IF key \in r.keys THEN Ok(r.vk) ELSE Err("KeyError")

\* r.rx2(key): R's [[ ]], NULL for a name the list does not hold
Rx2(r, key) == IF key \in r.keys THEN Ok(r.vk) ELSE Ok("empty")

\* r[names.index(key)]
ByName(r, key) ==
  IF r.names = "none" THEN Err("TypeError")
  ELSE IF key \in r.keys THEN Ok(r.vk) ELSE Err("ValueError")

\* the first failure among the values of a dict display, in evaluation order
FirstErr(seq) ==
  LET bad == {i \in 1..Len(seq) : ~seq[i].ok}
  IN IF bad = {} THEN "" ELSE seq[CHOOSE i \in bad : \A j \in bad : i <= j].err

AllOk(seq) == \A i \in 1..Len(seq) : seq[i].ok

NoMap == [t |-> "none"]
Extracted(m) == [ok |-> TRUE, err |-> "", ret |-> [t |-> "map", m |-> m]]
Failed(e) == [ok |-> FALSE, err |-> e, ret |-> NoMap]


\* ---------------------------------------------------------- shape dispatch
\* the isinstance / hasattr test of one branch
Fits(r, shape) ==
  IF shape = "dict" THEN r.isdict
  ELSE IF shape = "rx2" THEN r.rx2
  ELSE IF shape = "names" THEN r.names # "absent"
  ELSE TRUE

\* An if / elif chain over `order`, ending in else: the tests it evaluates
\* and the branch it enters.
Dispatch(order, r) ==
  LET hit == {i \in 1..Len(order) : Fits(r, order[i])}
      first == CHOOSE i \in hit : \A j \in hit : i <= j
  IN IF hit = {} THEN [branch |-> "else", tests |-> order]
     ELSE [branch |-> order[first], tests |-> SubSeq(order, 1, first)]

YearsOrderSwapped == <<"rx2", "dict", "names">>

\* get_available_years: if isinstance dict / elif rx2 / elif names / else
YearsOrder == <<"dict", "rx2", "names">>

\* get_available_assessment_years: if rx2 / elif names / else
AssessOrder == <<"rx2", "names">>

\* ------------------------------------------- get_available_years, by branch
YearsMap(vals) ==
  IF AllOk(vals)
  THEN Extracted([min_year |-> vals[Len(vals) - 1].k, max_year |-> vals[Len(vals)].k])
  ELSE Failed(FirstErr(vals))

YearsDictRaw(r) == YearsMap(<<Item(r, "min_year"), Item(r, "max_year")>>)

YearsDict(r) == YearsMap(<<PyInt(Item(r, "min_year")), PyInt(Item(r, "max_year"))>>)

YearsRx2(r) ==
  YearsMap(<<PyInt(Index0(Rx2(r, "min_year"))), PyInt(Index0(Rx2(r, "max_year")))>>)

\* names_attr None raises ValueError; both names.index run before any value
\* is read; a subscriptable value is replaced by its first element
First(x) == IF Subscriptable(x) THEN Index0(x) ELSE x

YearsNames(r) ==
  IF r.names = "none" THEN Failed("ValueError")
  ELSE LET lo == ByName(r, "min_year")
           hi == ByName(r, "max_year")
       IN YearsMap(<<lo, hi, First(lo), First(hi), PyInt(First(lo)), PyInt(First(hi))>>)

YearsElse(r) == IF r.pairs THEN YearsDict(r) ELSE Failed("TypeError")

ExtractYears(branch, r) ==
  IF branch = "dict" THEN YearsDict(r)
  ELSE IF branch = "rx2" THEN YearsRx2(r)
  ELSE IF branch = "names" THEN YearsNames(r)
  ELSE YearsElse(r)

\* -------------------------------- get_available_assessment_years, by branch
AssessMap(vals) ==
  IF AllOk(vals)
  THEN Extracted([years |-> vals[1].k, note |-> vals[2].k,
                  assessment_system |-> vals[3].k])
  ELSE Failed(FirstErr(vals))

AssessRx2(r) ==
  AssessMap(<<PyList(Rx2(r, "years")), PyStr(Index0(Rx2(r, "note"))),
              PyStr(Index0(Rx2(r, "assessment_system")))>>)

AssessNames(r) ==
  AssessMap(<<PyList(ByName(r, "years")), PyStr(Index0(ByName(r, "note"))),
              PyStr(Index0(ByName(r, "assessment_system")))>>)

\* dict(r_result): the record's own keys and values, unconverted
AssessElse(r) ==
  IF r.pairs THEN Extracted([k \in r.keys |-> r.vk]) ELSE Failed("TypeError")

ExtractAssess(branch, r) ==
  IF branch = "rx2" THEN AssessRx2(r)
  ELSE IF branch = "names" THEN AssessNames(r)
  ELSE AssessElse(r)


\* ------------------------------------------------------- the package handle
\* _get_pkg with the handle `pkg`; importOk is whether importr succeeds when
\* it is called.  tried: importr was called.
GetPkgAlways(pkg, importOk) ==
  IF importOk THEN [pkg |-> "pkg", ok |-> TRUE, tried |-> TRUE]
  ELSE [pkg |-> pkg, ok |-> FALSE, tried |-> TRUE]

GetPkgCachingFailure(pkg, importOk) ==
  IF pkg = "None"
  THEN [pkg |-> IF importOk THEN "pkg" ELSE "failed", ok |-> importOk, tried |-> TRUE]
  ELSE [pkg |-> pkg, ok |-> TRUE, tried |-> FALSE]

GetPkg(pkg, importOk) ==
  IF pkg = "None"
  THEN IF importOk THEN [pkg |-> "pkg", ok |-> TRUE, tried |-> TRUE]
       ELSE [pkg |-> "None", ok |-> FALSE, tried |-> TRUE]
  ELSE [pkg |-> pkg, ok |-> TRUE, tried |-> FALSE]

\* ------------------------------------------------------- tabular objects
ObjIds == {1, 2}
ObjKinds == {"pd", "rdf", "robj"}
Objects == [id : ObjIds, kind : ObjKinds, conv : {0}]

\* pandas2ri.rpy2py: a new Python object made from the R one
Rpy2py(o) ==
  [id |-> o.id, kind |-> IF o.kind = "rdf" THEN "pd" ELSE "py", conv |-> o.conv + 1]

DfResultAlwaysConverted(r_df) == Rpy2py(r_df)

\* if isinstance(r_df, pd.DataFrame): return r_df / return pandas2ri.rpy2py(r_df)
DfResult(r_df) == IF r_df.kind = "pd" THEN r_df ELSE Rpy2py(r_df)

\* ------------------------------------------------------------- arguments
Years == {2024, 2025}
Subjects == {"all", "ela"}
ElemKinds == {"int", "word"}
YearLists == UNION {[1..n -> ElemKinds] : n \in 0..MaxYears}

\* robjects.IntVector(end_years)
IntVector(end_years) ==
  IF \A i \in 1..Len(end_years) : end_years[i] = "int"
  THEN [ok |-> TRUE, err |-> "", v |-> [t |-> "IntVector", len |-> Len(end_years)]]
  ELSE [ok |-> FALSE, err |-> "ValueError", v |-> [t |-> "none"]]

\* what a caller may hand to tidy_enr: a pandas DataFrame, an rpy2 object, or
\* a Python object no conversion is registered for
ArgObjects == [id : ObjIds, kind : {"pd", "rdf", "py"}, conv : {0}]

\* pandas2ri.py2rpy(df): a DataFrame becomes an R data.frame, an rpy2 object
\* passes as it is, anything else has no conversion
Py2rpy(df) ==
  IF df.kind = "pd" THEN [ok |-> TRUE, err |-> "", v |-> [t |-> "rdf", id |-> df.id]]
  ELSE IF df.kind = "rdf" THEN [ok |-> TRUE, err |-> "", v |-> [t |-> "rdf", id |-> df.id]]
  ELSE [ok |-> FALSE, err |-> "NotImplementedError", v |-> [t |-> "none"]]

Passed(x) == [ok |-> TRUE, err |-> "", v |-> x]

\* ------------------------------------------------- what R gives back
Raise == [t |-> "raise"]
NoResp == [t |-> "none"]
DfResponses == {Raise} \cup {[t |-> "obj", o |-> o] : o \in Objects}
RecResponses(fieldSets) ==
  {Raise} \cup {[t |-> "rec", r |-> r] : r \in ForeignRecords(fieldSets)}

\* ----------------------------------------------------- outcome of one call
NoRet == [t |-> "none"]
NoSent == [t |-> "none"]

Outcome(op, before, g, sent, invoked, resp, d, raised, err, ret) ==
  [op |-> op, pkgBefore |-> before, loadTried |-> g.tried, loadOk |-> g.ok,
   sent |-> sent, invoked |-> invoked, resp |-> resp,
   tests |-> d.tests, branch |-> d.branch,
   raised |-> raised, err |-> err, ret |-> ret]

NoDispatch == [branch |-> "", tests |-> <<>>]

\* The part every operation shares: pkg = _get_pkg(); marshal; one call of
\* pkg.<op>(...); `after(resp)` is what the operation does with the value.
\* A handle that is not the package has no such attribute.
\* n is the number of invocations of the R function the operation makes.
Forward(op, pkg, importOk, m, n, resp, d, x) ==
  LET g == GetPkg(pkg, importOk)
  IN [pkg |-> g.pkg,
      out |->
        IF ~g.ok
        THEN Outcome(op, pkg, g, NoSent, 0, NoResp, NoDispatch, TRUE, "ImportError", NoRet)
        ELSE IF ~m.ok
        THEN Outcome(op, pkg, g, NoSent, 0, NoResp, NoDispatch, TRUE, m.err, NoRet)
        ELSE IF g.pkg # "pkg"
        THEN Outcome(op, pkg, g, NoSent, 0, NoResp, NoDispatch, TRUE, "AttributeError", NoRet)
        ELSE IF resp = Raise
        THEN Outcome(op, pkg, g, m.v, n, resp, NoDispatch, TRUE, "RRuntimeError", NoRet)
        ELSE Outcome(op, pkg, g, m.v, n, resp, d, ~x.ok, x.err, x.ret)]

Returned(o) == [ok |-> TRUE, err |-> "", ret |-> [t |-> "obj", o |-> o]]

\* the value a dataframe operation hands back for the R value resp
DfAfter(resp) == IF resp = Raise THEN Failed("") ELSE Returned(DfResult(resp.o))


\* ------------------------------------------------ the seven public operations
fetch_enr(pkg, importOk, end_year, resp) ==
  Forward("fetch_enr", pkg, importOk, Passed([t |-> "int", y |-> end_year]), 1,
          resp, NoDispatch, DfAfter(resp))

fetch_enr_multi_per_year(pkg, importOk, end_years, resp) ==
  Forward("fetch_enr_multi", pkg, importOk, IntVector(end_years), Len(end_years),
          resp, NoDispatch, DfAfter(resp))

fetch_enr_multi(pkg, importOk, end_years, resp) ==
  Forward("fetch_enr_multi", pkg, importOk, IntVector(end_years), 1,
          resp, NoDispatch, DfAfter(resp))

tidy_enr(pkg, importOk, df, resp) ==
  Forward("tidy_enr", pkg, importOk, Py2rpy(df), 1, resp, NoDispatch, DfAfter(resp))

fetch_assessment(pkg, importOk, end_year, subject, tidy, resp) ==
  Forward("fetch_assessment", pkg, importOk,
          Passed([t |-> "int", y |-> end_year, subject |-> subject, tidy |-> tidy]), 1,
          resp, NoDispatch, DfAfter(resp))

fetch_assessment_multi(pkg, importOk, end_years, subject, tidy, resp) ==
  LET m == IntVector(end_years)
  IN Forward("fetch_assessment_multi", pkg, importOk,
             [m EXCEPT !.v = IF m.ok THEN [t |-> "IntVector", len |-> m.v.len,
                                           subject |-> subject, tidy |-> tidy]
                             ELSE m.v], 1,
             resp, NoDispatch, DfAfter(resp))

\* the chain of get_available_years continued past a branch whose extraction
\* raised, as a try / except around each branch would
YearsUntilOneSucceeds(r) ==
  LET d == Dispatch(YearsOrder, r)
      all == YearsOrder \o <<"else">>
      from == CHOOSE i \in 1..Len(all) : all[i] = d.branch
      good == {i \in from..Len(all) : Fits(r, all[i]) /\ ExtractYears(all[i], r).ok}
  IN IF good = {} THEN ExtractYears(d.branch, r)
     ELSE ExtractYears(all[CHOOSE i \in good : \A j \in good : i <= j], r)

get_available_years_until_one_succeeds(pkg, importOk, resp) ==
  Forward("get_available_years", pkg, importOk, Passed(NoSent), 1, resp,
          IF resp = Raise THEN NoDispatch ELSE Dispatch(YearsOrder, resp.r),
          IF resp = Raise THEN Failed("") ELSE YearsUntilOneSucceeds(resp.r))

get_available_years(pkg, importOk, resp) ==
  LET d == IF resp = Raise THEN NoDispatch ELSE Dispatch(YearsOrder, resp.r)
  IN Forward("get_available_years", pkg, importOk, Passed(NoSent), 1, resp, d,
             IF resp = Raise THEN Failed("") ELSE ExtractYears(d.branch, resp.r))

get_available_assessment_years(pkg, importOk, resp) ==
  LET d == IF resp = Raise THEN NoDispatch ELSE Dispatch(AssessOrder, resp.r)
  IN Forward("get_available_assessment_years", pkg, importOk, Passed(NoSent), 1, resp, d,
             IF resp = Raise THEN Failed("") ELSE ExtractAssess(d.branch, resp.r))

\* --------------------------------------------------- one caller, in sequence
NoCall ==
  Outcome("", "None", [tried |-> FALSE, ok |-> TRUE], NoSent, 0, NoResp, NoDispatch,
          FALSE, "", NoRet)

Idle == [t \in {1, 2} |-> "idle"]

Init ==
  /\ _pkg = "None" /\ loads = 0 /\ last = NoCall /\ prevLoadFailed = FALSE
  /\ pkgB = "None" /\ lastB = NoCall /\ phase = "apart" /\ prior = <<0, 0>>
  /\ pc = Idle /\ held = [t \in {1, 2} |-> "None"] /\ tcalls = [t \in {1, 2} |-> 0]

\* importr is consulted only while the handle is unset
ImportAnswers(pkg) == IF pkg = "None" THEN BOOLEAN ELSE {TRUE}

Apply(res) ==
  /\ _pkg' = res.pkg
  /\ last' = res.out
  /\ loads' = loads + (IF res.out.loadTried /\ res.out.loadOk THEN 1 ELSE 0)
  /\ prevLoadFailed' = (last.loadTried /\ ~last.loadOk)
  /\ UNCHANGED <<pkgB, lastB, phase, prior, pc, held, tcalls>>

FetchEnr ==
  \E ok \in ImportAnswers(_pkg), y \in Years, resp \in DfResponses :
    Apply(fetch_enr(_pkg, ok, y, resp))

FetchEnrMulti ==
  \E ok \in ImportAnswers(_pkg), ys \in YearLists, resp \in DfResponses :
    Apply(fetch_enr_multi(_pkg, ok, ys, resp))

TidyEnr ==
  \E ok \in ImportAnswers(_pkg), df \in ArgObjects, resp \in DfResponses :
    Apply(tidy_enr(_pkg, ok, df, resp))

GetAvailableYears ==
  \E ok \in ImportAnswers(_pkg), resp \in RecResponses(YearsFieldSets) :
    Apply(get_available_years(_pkg, ok, resp))

FetchAssessment ==
  \E ok \in ImportAnswers(_pkg), y \in Years, sub \in Subjects, tidy \in BOOLEAN,
     resp \in DfResponses :
    Apply(fetch_assessment(_pkg, ok, y, sub, tidy, resp))

FetchAssessmentMulti ==
  \E ok \in ImportAnswers(_pkg), ys \in YearLists, sub \in Subjects, tidy \in BOOLEAN,
     resp \in DfResponses :
    Apply(fetch_assessment_multi(_pkg, ok, ys, sub, tidy, resp))

GetAvailableAssessmentYears ==
  \E ok \in ImportAnswers(_pkg), resp \in RecResponses(AssessFieldSets) :
    Apply(get_available_assessment_years(_pkg, ok, resp))

Next ==
  \/ FetchEnr
  \/ FetchEnrMulti
  \/ TidyEnr
  \/ GetAvailableYears
  \/ FetchAssessment
  \/ FetchAssessmentMulti
  \/ GetAvailableAssessmentYears

Spec == Init /\ [][Next]_vars


\* ------------------------------------------- two threads, first use of _pkg
\* Every public operation begins with pkg = _get_pkg(); the steps of that
\* call as the interpreter may interleave them between two threads.
Threads == {1, 2}

SeqVars == <<last, prevLoadFailed, pkgB, lastB, phase, prior>>

\* a thread calls a public operation, which calls _get_pkg()
Enter(t) ==
  /\ pc[t] = "idle" /\ tcalls[t] < MaxThreadCalls
  /\ pc' = [pc EXCEPT ![t] = "test"]
  /\ tcalls' = [tcalls EXCEPT ![t] = @ + 1]
  /\ UNCHANGED <<_pkg, loads, held, SeqVars>>

\* if _pkg is None:
TestNone(t) ==
  /\ pc[t] = "test"
  /\ pc' = [pc EXCEPT ![t] = IF _pkg = "None" THEN "import" ELSE "return"]
  /\ UNCHANGED <<_pkg, loads, held, tcalls, SeqVars>>

\* a double-checked import: importr is skipped when the handle was set since
ImportRechecked(t) ==
  /\ pc[t] = "import"
  /\ IF _pkg # "None"
     THEN pc' = [pc EXCEPT ![t] = "return"] /\ UNCHANGED <<loads, held>>
     ELSE \E ok \in BOOLEAN :
            IF ok
            THEN /\ held' = [held EXCEPT ![t] = "pkg"]
                 /\ loads' = loads + 1
                 /\ pc' = [pc EXCEPT ![t] = "store"]
            ELSE /\ pc' = [pc EXCEPT ![t] = "idle"]
                 /\ UNCHANGED <<loads, held>>
  /\ UNCHANGED <<_pkg, tcalls, SeqVars>>

\* importr("coschooldata"): loads the package, or raises out of the operation
Import(t) ==
  /\ pc[t] = "import"
  /\ \E ok \in BOOLEAN :
       IF ok
       THEN /\ held' = [held EXCEPT ![t] = "pkg"]
            /\ loads' = loads + 1
            /\ pc' = [pc EXCEPT ![t] = "store"]
       ELSE /\ pc' = [pc EXCEPT ![t] = "idle"]
            /\ UNCHANGED <<loads, held>>
  /\ UNCHANGED <<_pkg, tcalls, SeqVars>>

\* _pkg = <the value importr returned>
Store(t) ==
  /\ pc[t] = "store"
  /\ _pkg' = held[t]
  /\ held' = [held EXCEPT ![t] = "None"]
  /\ pc' = [pc EXCEPT ![t] = "return"]
  /\ UNCHANGED <<loads, tcalls, SeqVars>>

\* return _pkg
Return(t) ==
  /\ pc[t] = "return"
  /\ held' = [held EXCEPT ![t] = _pkg]
  /\ pc' = [pc EXCEPT ![t] = "invoke"]
  /\ UNCHANGED <<_pkg, loads, tcalls, SeqVars>>

\* the rest of the operation: pkg.<function>(...) and the conversion
Invoke(t) ==
  /\ pc[t] = "invoke"
  /\ held' = [held EXCEPT ![t] = "None"]
  /\ pc' = [pc EXCEPT ![t] = "idle"]
  /\ UNCHANGED <<_pkg, loads, tcalls, SeqVars>>

NextThreads ==
  \E t \in Threads :
    \/ Enter(t)
    \/ TestNone(t)
    \/ Import(t)
    \/ Store(t)
    \/ Return(t)
    \/ Invoke(t)

SpecThreads == Init /\ [][NextThreads]_vars

\* --------------------------------------- two runs of the program, side by side
\* Run A owns _pkg and last, run B owns pkgB and lastB.  The runs make their
\* own earlier calls, then both make one and the same call: same operation,
\* same arguments, same answers from importr and from R.
CallInputs ==
  [op : {"fetch_enr"}, ok : BOOLEAN, y : Years, resp : DfResponses]
  \cup [op : {"fetch_enr_multi"}, ok : BOOLEAN, ys : YearLists, resp : DfResponses]
  \cup [op : {"tidy_enr"}, ok : BOOLEAN, df : ArgObjects, resp : DfResponses]
  \cup [op : {"get_available_years"}, ok : BOOLEAN, resp : RecResponses(YearsFieldSets)]
  \cup [op : {"fetch_assessment"}, ok : BOOLEAN, y : Years, subject : Subjects,
        tidy : BOOLEAN, resp : DfResponses]
  \cup [op : {"fetch_assessment_multi"}, ok : BOOLEAN, ys : YearLists,
        subject : Subjects, tidy : BOOLEAN, resp : DfResponses]
  \cup [op : {"get_available_assessment_years"}, ok : BOOLEAN,
        resp : RecResponses(AssessFieldSets)]

Perform(pkg, c) ==
  IF c.op = "fetch_enr" THEN fetch_enr(pkg, c.ok, c.y, c.resp)
  ELSE IF c.op = "fetch_enr_multi" THEN fetch_enr_multi(pkg, c.ok, c.ys, c.resp)
  ELSE IF c.op = "tidy_enr" THEN tidy_enr(pkg, c.ok, c.df, c.resp)
  ELSE IF c.op = "get_available_years" THEN get_available_years(pkg, c.ok, c.resp)
  ELSE IF c.op = "fetch_assessment"
    THEN fetch_assessment(pkg, c.ok, c.y, c.subject, c.tidy, c.resp)
  ELSE IF c.op = "fetch_assessment_multi"
    THEN fetch_assessment_multi(pkg, c.ok, c.ys, c.subject, c.tidy, c.resp)
  ELSE get_available_assessment_years(pkg, c.ok, c.resp)

ThreadVars == <<pc, held, tcalls>>

EarlierCallA ==
  /\ phase = "apart" /\ prior[1] < MaxPrior
  /\ \E c \in CallInputs : _pkg' = Perform(_pkg, c).pkg
  /\ prior' = [prior EXCEPT ![1] = @ + 1]
  /\ UNCHANGED <<loads, last, prevLoadFailed, pkgB, lastB, phase, ThreadVars>>

EarlierCallB ==
  /\ phase = "apart" /\ prior[2] < MaxPrior
  /\ \E c \in CallInputs : pkgB' = Perform(pkgB, c).pkg
  /\ prior' = [prior EXCEPT ![2] = @ + 1]
  /\ UNCHANGED <<_pkg, loads, last, prevLoadFailed, lastB, phase, ThreadVars>>

SameCall ==
  /\ phase = "apart"
  /\ \E c \in CallInputs :
       /\ _pkg' = Perform(_pkg, c).pkg /\ last' = Perform(_pkg, c).out
       /\ pkgB' = Perform(pkgB, c).pkg /\ lastB' = Perform(pkgB, c).out
  /\ phase' = "same"
  /\ UNCHANGED <<loads, prevLoadFailed, prior, ThreadVars>>

NextPair ==
  \/ EarlierCallA
  \/ EarlierCallB
  \/ SameCall

SpecPair == Init /\ [][NextPair]_vars

\* ============================================================== properties
DfOps == {"fetch_enr", "fetch_enr_multi", "tidy_enr", "fetch_assessment",
          "fetch_assessment_multi"}
YearOps == {"get_available_years", "get_available_assessment_years"}
MarshalErrors == {"ValueError", "NotImplementedError"}
LoadFailed(o) == o.loadTried /\ ~o.loadOk
GotRecord(o) == o.op \in YearOps /\ o.resp # NoResp /\ o.resp # Raise

\* C1: the handle is unset before the first call; a call that finds it unset
\* calls importr and a successful importr sets it; the package is loaded at
\* most once (exactly once as soon as it is set); once set the handle never
\* changes.
LazySingleton ==
  /\ [](/\ (last = NoCall => _pkg = "None")
        /\ (last.op # "" /\ last.pkgBefore = "None" => last.loadTried)
        /\ (last.loadTried /\ last.loadOk => _pkg = "pkg")
        /\ (_pkg = "None" <=> loads = 0)
        /\ loads <= 1)
  /\ [][_pkg # "None" => _pkg' = _pkg]_vars

LazySingletonWitness ==
  loads = 1 /\ last.pkgBefore = "pkg" /\ ~last.loadTried /\ _pkg = "pkg"

\* C2 as claimed: both year lookups test indexable-by-name (rx2) first, and a
\* record with rx2 is handled by the rx2 branch.
ClaimedShapeOrder ==
  GotRecord(last) =>
    /\ last.tests[1] = "rx2"
    /\ (last.resp.r.rx2 => last.branch = "rx2")

\* C2 amended: get_available_years tests mapping, then rx2, then names, then
\* falls back; get_available_assessment_years tests rx2, then names, then
\* falls back; the record is handled by the earliest branch of the
\* operation's own order that it fits.
ShapeOrderPerOperation ==
  GotRecord(last) =>
    LET r == last.resp.r
    IN /\ last.op = "get_available_years" =>
            /\ last.tests[1] = "dict"
            /\ last.branch = IF r.isdict THEN "dict"
                             ELSE IF r.rx2 THEN "rx2"
                             ELSE IF r.names # "absent" THEN "names" ELSE "else"
            /\ (last.branch = "rx2" => last.tests = <<"dict", "rx2">>)
       /\ last.op = "get_available_assessment_years" =>
            /\ last.tests[1] = "rx2"
            /\ last.branch = IF r.rx2 THEN "rx2"
                             ELSE IF r.names # "absent" THEN "names" ELSE "else"
            /\ (last.branch = "names" => last.tests = <<"rx2", "names">>)

ShapeOrderWitness ==
  /\ GotRecord(last) /\ last.op = "get_available_years"
  /\ last.resp.r.isdict /\ last.resp.r.rx2 /\ last.branch = "dict"

\* the branches after `branch` in the operation's chain that the record fits
LaterBranches(op, r, branch) ==
  LET all == (IF op = "get_available_years" THEN YearsOrder ELSE AssessOrder) \o <<"else">>
      at == CHOOSE i \in 1..Len(all) : all[i] = branch
  IN {all[i] : i \in {j \in (at + 1)..Len(all) : Fits(r, all[j])}}

ExtractFor(op, branch, r) ==
  IF op = "get_available_years" THEN ExtractYears(branch, r) ELSE ExtractAssess(branch, r)

\* C3 as claimed: a year lookup raises only when every shape has failed.
TriedUntilOneSucceeds ==
  GotRecord(last) /\ last.raised =>
    \A b \in LaterBranches(last.op, last.resp.r, last.branch) :
      ~ExtractFor(last.op, b, last.resp.r).ok

\* C3 amended: the branch is chosen by the shape tests alone; the call raises
\* exactly when the extraction of that one branch fails, with that error,
\* whether or not a later shape would have succeeded.
NoFallThrough ==
  GotRecord(last) =>
    LET x == ExtractFor(last.op, last.branch, last.resp.r)
    IN /\ last.raised <=> ~x.ok
       /\ last.err = x.err
       /\ last.ret = x.ret

NoFallThroughWitness ==
  /\ GotRecord(last) /\ last.raised
  /\ \E b \in LaterBranches(last.op, last.resp.r, last.branch) :
       ExtractFor(last.op, b, last.resp.r).ok

\* C4: whenever get_available_assessment_years returns, the mapping has
\* exactly the keys years, note and assessment_system.
AssessKeysExact ==
  last.op = "get_available_assessment_years" /\ ~last.raised =>
    DOMAIN last.ret.m = {"years", "note", "assessment_system"}

\* C5: whenever get_available_years returns, the mapping has exactly the keys
\* min_year and max_year and both values are Python ints.
YearsKeysAndInts ==
  last.op = "get_available_years" /\ ~last.raised =>
    /\ last.ret.t = "map"
    /\ DOMAIN last.ret.m = {"min_year", "max_year"}
    /\ \A k \in DOMAIN last.ret.m : last.ret.m[k] = "int"

YearsKeysAndIntsWitness ==
  /\ last.op = "get_available_years" /\ ~last.raised
  /\ last.branch = "dict" /\ last.resp.r.vk = "float" /\ "extra" \in last.resp.r.keys

\* C6 as claimed: every call makes exactly one invocation of the R function.
ExactlyOneInvocation == last.op # "" => last.invoked = 1

\* C6 amended: a call makes at most one invocation, and none only when the
\* package load or the argument conversion raised; the multi-year operations
\* send the whole list in that invocation; when the invocation raises the
\* call raises that error and returns nothing.
AtMostOneInvocation ==
  last.op # "" =>
    /\ last.invoked <= 1
    /\ (last.invoked = 0 =>
          last.raised /\ (LoadFailed(last) \/ last.err \in MarshalErrors))
    /\ (last.invoked = 1 /\ last.op \in {"fetch_enr_multi", "fetch_assessment_multi"}
          => last.sent.t = "IntVector")
    /\ (last.resp = Raise =>
          last.invoked = 1 /\ last.raised /\ last.err = "RRuntimeError" /\ last.ret = NoRet)

AtMostOneInvocationWitness ==
  /\ last.op = "fetch_enr_multi" /\ last.invoked = 1 /\ last.sent.len = MaxYears
  /\ last.resp = Raise /\ last.raised

\* C9: a dataframe operation returns a pandas DataFrame it got as that same
\* object, and anything else converted exactly once.
DfReturnedAsIsOrConvertedOnce ==
  last.op \in DfOps /\ ~last.raised =>
    /\ last.ret.t = "obj"
    /\ (last.resp.o.kind = "pd" => last.ret.o = last.resp.o)
    /\ (last.resp.o.kind # "pd" =>
          /\ last.ret.o.id = last.resp.o.id
          /\ last.ret.o.conv = last.resp.o.conv + 1
          /\ last.ret.o.kind \notin {"rdf", "robj"})

DfReturnWitness ==
  /\ last.op = "tidy_enr" /\ ~last.raised
  /\ last.resp.o.kind = "pd" /\ last.ret.o = last.resp.o

\* C10: a failed importr leaves the handle unset and raises to the caller
\* before anything is sent to R, and the call after it calls importr again.
FailedLoadNotCached ==
  /\ (LoadFailed(last) =>
        _pkg = "None" /\ last.raised /\ last.err = "ImportError" /\ last.invoked = 0)
  /\ (prevLoadFailed => last.pkgBefore = "None" /\ last.loadTried)

FailedLoadNotCachedWitness ==
  prevLoadFailed /\ last.loadTried /\ last.loadOk /\ _pkg = "pkg" /\ ~last.raised


\* C7: nothing guards the first use: a thread that has found the handle unset
\* goes on to call importr whatever the other thread has stored meanwhile,
\* and each successful importr is one more load of the package.
UnguardedFirstUse ==
  [][\A t \in Threads :
       pc[t] = "import" /\ pc'[t] # "import" =>
         \/ pc'[t] = "store" /\ loads' = loads + 1
         \/ pc'[t] = "idle" /\ loads' = loads]_vars

\* both threads, each in its first call, found the handle unset and both
\* loaded the package
LoadedTwice ==
  /\ tcalls = <<1, 1>> /\ loads = 2
  /\ pc[1] = "store" /\ pc[2] = "store"

\* what the caller of one call can see of it
Result(o) == [raised |-> o.raised, err |-> o.err, ret |-> o.ret, invoked |-> o.invoked]

\* C8: once the handle is set in both runs, the same call with the same
\* arguments and the same foreign answers returns the same result and leaves
\* the same module state, whatever calls each run made before.

StatelessAfterInit ==
  phase = "same" /\ last.pkgBefore # "None" /\ lastB.pkgBefore # "None" =>
    Result(last) = Result(lastB) /\ _pkg = pkgB

StatelessWitness ==
  /\ phase = "same" /\ last.pkgBefore # "None" /\ lastB.pkgBefore # "None"
  /\ prior[1] # prior[2] /\ ~last.raised /\ last.op = "get_available_years"

=============================================================================
